---- MODULE Spec2Model ----
(***************************************************************************)
(* The visit query of recordingUtil.ts: queryVisits fetches pages of       *)
(* recordings from the Recording model, feeds them to a DeviceSummary and  *)
(* returns the complete visits with the offset to resume from.             *)
(***************************************************************************)
EXTENDS Integers, Sequences, FiniteSets, TLC

\* ------------------------------------------------------------------ bounds
NumDevices == 2
MaxTime == 3
MaxRecs == 3
MaxLimit == 2
MaxOffset == 1
MaxRuns == 3
MaxBaits == 2
MaxVisits == 3
MaxEvents == 2

\* --------------------------------------------------------------- constants
\* null and undefined of JavaScript (request.query.limit, request.query.offset,
\* totalCount before the first fetch, a queryOffset that was never set)
Null == -1
maxVisitQueryResults == 5000
\* the visit interval of isWithinVisitInterval, in the model's time unit
VisitInterval == 1
\* interval '1 day' of addAudioEvents, in the model's time unit
Day == 2

Devices == 1..NumDevices
Times == 0..MaxTime

Min(a, b) == IF a <= b THEN a ELSE b

VARIABLES
    source,            \* the rows the Recording model holds for the query, in its order
    count,             \* the count findAndCountAll reports for the query
    pc,                \* position of the invocation of queryVisits
    reqLimit,          \* request.query.limit
    reqOffset,         \* request.query.offset
    builderLimit,      \* builder.query.limit
    builderOffset,     \* builder.query.offset
    devSummary,        \* devSummary
    numRecordings,
    remainingVisits,
    totalCount,
    recordings,
    gotAllRecordings,
    calls,             \* number of calls of each collaborator in this invocation
    result,            \* the object queryVisits returns
    runs,              \* invocations made by the paging caller so far
    firstOffset,       \* the offset the paging caller started from
    returned,          \* visits returned by the earlier invocations of the caller
    failure,           \* what a collaborator raised and what queryVisits threw to its caller
    baits,             \* the audio bait events the device logged
    rvisits,           \* results.visits of reportVisits, with their audioBaitEvents
    out,               \* the rows reportVisits has pushed
    rpc,               \* position of the invocation of reportVisits
    invs               \* the local state of each of two invocations in flight together

queryVars == <<source, count, pc, reqLimit, reqOffset, builderLimit, builderOffset,
               devSummary, numRecordings, remainingVisits, totalCount, recordings,
               gotAllRecordings, calls, result, runs, firstOffset, returned, failure>>

reportVars == <<baits, rvisits, out, rpc>>

vars == <<queryVars, reportVars, invs>>

\* ----------------------------------------------------- Time-Window Source
RECURSIVE DescSeq(_)
DescSeq(S) ==
    IF S = {} THEN <<>>
    ELSE LET m == CHOOSE x \in S : \A y \in S : y <= x
         IN  <<m>> \o DescSeq(S \ {m})

RECURSIVE DeviceRows(_, _)
DeviceRows(f, d) ==
    IF d > NumDevices THEN <<>>
    ELSE LET ts == DescSeq(f[d])
         IN  [i \in 1..Len(ts) |-> [DeviceId |-> d, t |-> ts[i]]] \o DeviceRows(f, d + 1)

RECURSIVE TotalRows(_, _)
TotalRows(f, d) == IF d > NumDevices THEN 0 ELSE Cardinality(f[d]) + TotalRows(f, d + 1)

\* a row carries its id: its place in the order of the source
WithIds(rows) == [i \in 1..Len(rows) |-> [id |-> i, DeviceId |-> rows[i].DeviceId, t |-> rows[i].t]]

\* the sources: ordered by device, then by descending time
Sources ==
    { WithIds(DeviceRows(f, 1)) :
        f \in { g \in [Devices -> SUBSET Times] : TotalRows(g, 1) <= MaxRecs } }

\* the counts a source may report: none, the true one, one too many
Counts(src) == {0, Len(src), Len(src) + 1}

\* models.Recording.findAll / findAndCountAll rows for builder.get()
FetchRows(src, offset, limit) == SubSeq(src, offset + 1, Min(offset + limit, Len(src)))

\* ----------------------------------------------------------- DeviceSummary
NewDeviceSummary == [deviceMap |-> [d \in Devices |-> <<>>], discarded |-> {}]

IsWithinVisitInterval(a, b) == a - b <= VisitInterval /\ b - a <= VisitInterval

NewVisit(rec, offset) ==
    [deviceId |-> rec.DeviceId, start |-> rec.t, end |-> rec.t,
     events |-> <<rec.id>>, queryOffset |-> offset, complete |-> FALSE]

\* Visit Builder: the recording extends the open visit of its device or opens a new one
ConsumeRecording(dm, rec, offset) ==
    LET vs == dm[rec.DeviceId]
        n  == Len(vs)
    IN  IF n > 0 /\ ~vs[n].complete /\ IsWithinVisitInterval(vs[n].start, rec.t)
        THEN [dm EXCEPT ![rec.DeviceId][n] =
                 [@ EXCEPT !.start = rec.t,
                           !.events = Append(@, rec.id),
                           !.queryOffset = offset]]
        ELSE [dm EXCEPT ![rec.DeviceId] = Append(@, NewVisit(rec, offset))]

RECURSIVE FeedPage(_, _, _, _)
FeedPage(dm, recs, offset, i) ==
    IF i > Len(recs) THEN dm
    ELSE FeedPage(ConsumeRecording(dm, recs[i], offset + (i - 1)), recs, offset, i + 1)

MarkCompleted(ds) ==
    [ds EXCEPT !.deviceMap =
        [d \in Devices |-> [k \in 1..Len(ds.deviceMap[d]) |->
            [ds.deviceMap[d][k] EXCEPT !.complete = TRUE]]]]

GenerateVisits(ds, recs, offset, complete) ==
    LET fed == [ds EXCEPT !.deviceMap = FeedPage(ds.deviceMap, recs, offset, 1)]
    IN  IF complete THEN MarkCompleted(fed) ELSE fed

\* a visit is complete once an older recording of its device opened a later visit
CheckForCompleteVisits(ds) ==
    [ds EXCEPT !.deviceMap =
        [d \in Devices |-> [k \in 1..Len(ds.deviceMap[d]) |->
            IF k < Len(ds.deviceMap[d])
            THEN [ds.deviceMap[d][k] EXCEPT !.complete = TRUE]
            ELSE ds.deviceMap[d][k]]]]

IsComplete(v) == v.complete
IsIncomplete(v) == ~v.complete

\* the visits of all devices, in the order of the device map and of each device's list
RECURSIVE CompleteFrom(_, _)
CompleteFrom(dm, d) ==
    IF d > NumDevices THEN <<>>
    ELSE SelectSeq(dm[d], IsComplete) \o CompleteFrom(dm, d + 1)

RECURSIVE IncompleteFrom(_, _)
IncompleteFrom(dm, d) ==
    IF d > NumDevices THEN <<>>
    ELSE SelectSeq(dm[d], IsIncomplete) \o IncompleteFrom(dm, d + 1)

CompleteVisits(ds) == CompleteFrom(ds.deviceMap, 1)
IncompleteVisits(ds) == IncompleteFrom(ds.deviceMap, 1)
CompleteVisitsCount(ds) == Len(CompleteVisits(ds))

SeqRange(s) == {s[i] : i \in 1..Len(s)}

\* the discarded visits' offsets stay known as the resumption point
RemoveIncompleteVisits(ds) ==
    [deviceMap |-> [d \in Devices |-> SelectSeq(ds.deviceMap[d], IsComplete)],
     discarded |-> ds.discarded \cup {v.queryOffset : v \in SeqRange(IncompleteVisits(ds))}]

EarliestIncompleteOffset(ds) ==
    LET offs == ds.discarded \cup {v.queryOffset : v \in SeqRange(IncompleteVisits(ds))}
    IN  IF offs = {} THEN Null
        ELSE CHOOSE o \in offs : \A p \in offs : o <= p

\* ------------------------------------------------------------- queryVisits
Limits == {Null} \cup 0..MaxLimit
Offsets == {Null} \cup 0..MaxOffset

RequestVisits(limit) == IF limit = Null THEN maxVisitQueryResults ELSE limit

queryMax == maxVisitQueryResults * 2

\* if (request.query.limit): null and 0 are falsy
InitialQueryLimit(limit) ==
    IF limit # Null /\ limit # 0 THEN Min(limit * 2, queryMax) ELSE queryMax

\* queryBuilder().init: a missing offset starts the query at 0
BuilderInitOffset(offset) == IF offset = Null THEN 0 ELSE offset

\* mutant: the loop goes on with no visit left to find
LoopConditionOffByOne(g, r) == g \/ r >= 0

\* while (gotAllRecordings || remainingVisits > 0); undefined counts as false
LoopCondition(g, r) == g \/ r > 0

\* if (totalCount): undefined and 0 are falsy, the count is asked for again
WantCount(tc) == tc = Null \/ tc = 0

\* recordings.length + builder.query.offset >= recordings: the array operand is
\* converted with toString and ToNumber; [] gives "" and 0, an array of model
\* instances gives "[object Object],..." and NaN, and NaN compares false
GotAllRecordings(recs, offset) ==
    IF Len(recs) = 0 THEN Len(recs) + offset >= 0 ELSE FALSE

\* mutant: an empty page does not leave the loop
BreakOnEmptyNever(recs) == FALSE


BreakOnEmpty(recs) == Len(recs) = 0

\* request.query.offset || 0
PageOffset(reqOff, builderOff) == IF reqOff = Null \/ reqOff = 0 THEN 0 ELSE reqOff

\* mutant: the next page is not twice the remaining visits
NextLimitNotDoubled(remaining) == Min(remaining, queryMax)


NextLimit(remaining) == Min(remaining * 2, queryMax)

\* mutant: the cursor does not move on
AdvanceOffsetStuck(offset, recs) == offset


\* mutant: the cursor skips a row after each page
AdvanceOffsetSkipsRow(offset, recs) == offset + Len(recs) + 1


AdvanceOffset(offset, recs) == offset + Len(recs)

\* mutant: the branches are the wrong way round
FinalizeInverted(ds, gotAll) ==
    IF ~gotAll
    THEN [summary |-> MarkCompleted(ds), markCompleted |-> 1, removeIncompleteVisits |-> 0]
    ELSE [summary |-> RemoveIncompleteVisits(ds), markCompleted |-> 0, removeIncompleteVisits |-> 1]

\* mutant: the open visits are not marked complete on exhaustion
FinalizeWithoutMark(ds, gotAll) ==
    IF gotAll
    THEN [summary |-> ds, markCompleted |-> 0, removeIncompleteVisits |-> 0]
    ELSE [summary |-> RemoveIncompleteVisits(ds), markCompleted |-> 0, removeIncompleteVisits |-> 1]

\* mutant: the open visits are marked complete however the loop ended
FinalizeAlwaysMark(ds, gotAll) ==
    [summary |-> MarkCompleted(ds), markCompleted |-> 1, removeIncompleteVisits |-> 0]

\* if (gotAllRecordings) markCompleted() else removeIncompleteVisits()
Finalize(ds, gotAll) ==
    IF gotAll
    THEN [summary |-> MarkCompleted(ds), markCompleted |-> 1, removeIncompleteVisits |-> 0]
    ELSE [summary |-> RemoveIncompleteVisits(ds), markCompleted |-> 0, removeIncompleteVisits |-> 1]

Perms(n) == {p \in [1..n -> 1..n] : \A i, j \in 1..n : i # j => p[i] # p[j]}

SortedByStartDesc(s) == \A i \in 1..(Len(s) - 1) : s[i].start >= s[i + 1].start

\* visits.sort with the comparator b.start > a.start ? 1 : -1. The comparator
\* never answers 0, so for two visits of equal start it says both a before b and
\* b before a: the order of ties is the engine's choice.
SortOutcomes(visits) ==
    {s \in {[i \in 1..Len(visits) |-> visits[p[i]]] : p \in Perms(Len(visits))} :
        SortedByStartDesc(s)}

ResultQueryOffset(ds, visits) ==
    LET o == EarliestIncompleteOffset(ds)
    IN  IF o = Null /\ Len(visits) > 0 THEN visits[Len(visits)].queryOffset + 1 ELSE o

NoCalls ==
    [findAndCountAll |-> 0, findAll |-> 0, generateVisits |-> 0,
     checkForCompleteVisits |-> 0, markCompleted |-> 0,
     removeIncompleteVisits |-> 0, getMultiple |-> 0]

NoResult ==
    [visits |-> <<>>, hasMoreVisits |-> FALSE, queryOffset |-> Null,
     totalRecordings |-> Null, numRecordings |-> 0, numVisits |-> 0]

Fetches == calls.findAndCountAll + calls.findAll

\* mutant: the names are looked up visit by visit
GetMultipleCallsPerVisit(ds) == CompleteVisitsCount(ds)

\* lines 768-772: one call of File.getMultiple, outside every loop, with all ids
GetMultipleCalls(ds) == 1

\* the errors a collaborator (Recording.findAll, Recording.findAndCountAll,
\* File.getMultiple) may reject with
Errors == {"SequelizeConnectionError", "SequelizeTimeoutError"}

NoError == "none"

NoFailure == [raised |-> NoError, thrown |-> NoError]

\* mutant: the rejection is caught and the code after the loop goes on
RejectedSwallowed(err) == [pc |-> "post", thrown |-> NoError]

\* an await of a rejected promise with no try/catch around it: the async
\* function ends there and rejects with the same error
Rejected(err) == [pc |-> "failed", thrown |-> err]

\* more fetches than any invocation over a source of MaxRecs rows can issue
MaxFetches == MaxRecs + 2

\* lines 679-713: the state of a fresh invocation
\* two requests served at the same time
Invocations == {1, 2}

\* the locals of an invocation that has not started
IdleInvocation ==
    [pc |-> "idle", reqLimit |-> Null, reqOffset |-> Null, builderLimit |-> 0,
     builderOffset |-> 0, devSummary |-> NewDeviceSummary, numRecordings |-> 0,
     remainingVisits |-> 0, totalCount |-> Null, recordings |-> <<>>,
     gotAllRecordings |-> FALSE, result |-> NoResult]

StartInvocation(limit, offset) ==
    /\ reqLimit' = limit
    /\ reqOffset' = offset
    /\ builderLimit' = InitialQueryLimit(limit)
    /\ builderOffset' = BuilderInitOffset(offset)
    /\ devSummary' = NewDeviceSummary
    /\ numRecordings' = 0
    /\ remainingVisits' = RequestVisits(limit)
    /\ totalCount' = Null
    /\ recordings' = <<>>
    /\ gotAllRecordings' = FALSE
    /\ calls' = NoCalls
    /\ result' = NoResult
    /\ failure' = NoFailure
    /\ pc' = "loop"

Init ==
    /\ source \in Sources
    /\ count \in Counts(source)
    /\ pc = "idle"
    /\ reqLimit = Null
    /\ reqOffset = Null
    /\ builderLimit = 0
    /\ builderOffset = 0
    /\ devSummary = NewDeviceSummary
    /\ numRecordings = 0
    /\ remainingVisits = 0
    /\ totalCount = Null
    /\ recordings = <<>>
    /\ gotAllRecordings = FALSE
    /\ calls = NoCalls
    /\ result = NoResult
    /\ runs = 0
    /\ firstOffset = Null
    /\ returned = <<>>
    /\ failure = NoFailure
    /\ baits = <<>>
    /\ rvisits = <<>>
    /\ out = <<>>
    /\ rpc = "off"
    /\ invs = [i \in Invocations |-> IdleInvocation]

\* a caller invokes queryVisits with a request
Begin ==
    /\ pc = "idle"
    /\ \E limit \in Limits, offset \in Offsets :
          /\ StartInvocation(limit, offset)
          /\ firstOffset' = offset
    /\ runs' = 1
    /\ UNCHANGED <<source, count, returned>>
    /\ UNCHANGED <<reportVars, invs>>

\* lines 715-728: the loop test, the fetch of a page, and the break on an empty page
Fetch ==
    /\ pc = "loop"
    /\ LoopCondition(gotAllRecordings, remainingVisits)
    /\ Fetches < MaxFetches
    /\ LET rows == FetchRows(source, builderOffset, builderLimit)
       IN  /\ recordings' = rows
           /\ IF WantCount(totalCount)
              THEN /\ totalCount' = count
                   /\ calls' = [calls EXCEPT !.findAndCountAll = @ + 1]
              ELSE /\ totalCount' = totalCount
                   /\ calls' = [calls EXCEPT !.findAll = @ + 1]
           /\ numRecordings' = numRecordings + Len(rows)
           /\ gotAllRecordings' = GotAllRecordings(rows, builderOffset)
           /\ pc' = IF BreakOnEmpty(rows) THEN "post" ELSE "page"
    /\ UNCHANGED <<source, count, reqLimit, reqOffset, builderLimit, builderOffset,
                   devSummary, remainingVisits, result, runs, firstOffset, returned,
                   failure>>
    /\ UNCHANGED <<reportVars, invs>>

\* lines 715-722: the loop test passes and the fetch of the page fails
FetchFail ==
    /\ pc = "loop"
    /\ LoopCondition(gotAllRecordings, remainingVisits)
    /\ Fetches < MaxFetches
    /\ calls' = IF WantCount(totalCount)
                THEN [calls EXCEPT !.findAndCountAll = @ + 1]
                ELSE [calls EXCEPT !.findAll = @ + 1]
    /\ \E err \in Errors :
          /\ failure' = [raised |-> err, thrown |-> Rejected(err).thrown]
          /\ pc' = Rejected(err).pc
    /\ UNCHANGED <<source, count, reqLimit, reqOffset, builderLimit, builderOffset,
                   devSummary, numRecordings, remainingVisits, totalCount, recordings,
                   gotAllRecordings, result, runs, firstOffset, returned>>
    /\ UNCHANGED <<reportVars, invs>>

\* lines 730-746: the page goes to the Device Summary, the cursor moves on
Process ==
    /\ pc = "page"
    /\ LET fed     == GenerateVisits(devSummary, recordings,
                                     PageOffset(reqOffset, builderOffset), gotAllRecordings)
           checked == IF ~gotAllRecordings THEN CheckForCompleteVisits(fed) ELSE fed
           remain  == RequestVisits(reqLimit) - CompleteVisitsCount(checked)
       IN  /\ devSummary' = checked
           /\ calls' = [calls EXCEPT !.generateVisits = @ + 1,
                                     !.checkForCompleteVisits =
                                         IF ~gotAllRecordings THEN @ + 1 ELSE @]
           /\ remainingVisits' = remain
           /\ builderLimit' = NextLimit(remain)
           /\ builderOffset' = AdvanceOffset(builderOffset, recordings)
    /\ pc' = "loop"
    /\ UNCHANGED <<source, count, reqLimit, reqOffset, numRecordings, totalCount,
                   recordings, gotAllRecordings, result, runs, firstOffset, returned,
                   failure>>
    /\ UNCHANGED <<reportVars, invs>>

\* line 715: the loop test fails
ExitLoop ==
    /\ pc = "loop"
    /\ ~LoopCondition(gotAllRecordings, remainingVisits)
    /\ pc' = "post"
    /\ UNCHANGED <<source, count, reqLimit, reqOffset, builderLimit, builderOffset,
                   devSummary, numRecordings, remainingVisits, totalCount, recordings,
                   gotAllRecordings, calls, result, runs, firstOffset, returned,
                   failure>>
    /\ UNCHANGED <<reportVars, invs>>

\* lines 749-789: complete or remove the open visits, sort, build the result
Finish ==
    /\ pc = "post"
    /\ LET fin == Finalize(devSummary, gotAllRecordings)
       IN  /\ devSummary' = fin.summary
           /\ calls' = [calls EXCEPT !.markCompleted = @ + fin.markCompleted,
                                     !.removeIncompleteVisits = @ + fin.removeIncompleteVisits,
                                     !.getMultiple = @ + GetMultipleCalls(fin.summary)]
           /\ \E visits \in SortOutcomes(CompleteVisits(fin.summary)) :
                 result' = [visits |-> visits,
                            hasMoreVisits |-> ~gotAllRecordings,
                            queryOffset |-> ResultQueryOffset(fin.summary, visits),
                            totalRecordings |-> totalCount,
                            numRecordings |-> numRecordings,
                            numVisits |-> Len(visits)]
    /\ pc' = "done"
    /\ UNCHANGED <<source, count, reqLimit, reqOffset, builderLimit, builderOffset,
                   numRecordings, remainingVisits, totalCount, recordings,
                   gotAllRecordings, runs, firstOffset, returned,
                   failure>>
    /\ UNCHANGED <<reportVars, invs>>

\* lines 768-772: the bulk lookup of the audio files fails after the visits
\* were completed or removed and sorted; no result is built
LookupFail ==
    /\ pc = "post"
    /\ LET fin == Finalize(devSummary, gotAllRecordings)
       IN  /\ devSummary' = fin.summary
           /\ calls' = [calls EXCEPT !.markCompleted = @ + fin.markCompleted,
                                     !.removeIncompleteVisits = @ + fin.removeIncompleteVisits,
                                     !.getMultiple = @ + GetMultipleCalls(fin.summary)]
    /\ \E err \in Errors :
          /\ failure' = [raised |-> err, thrown |-> Rejected(err).thrown]
          /\ pc' = Rejected(err).pc
    /\ UNCHANGED <<source, count, reqLimit, reqOffset, builderLimit, builderOffset,
                   numRecordings, remainingVisits, totalCount, recordings,
                   gotAllRecordings, result, runs, firstOffset, returned>>
    /\ UNCHANGED <<reportVars, invs>>

\* the paging caller runs queryVisits again from the returned queryOffset
Resume ==
    /\ pc = "done"
    /\ result.hasMoreVisits
    /\ runs < MaxRuns
    /\ StartInvocation(reqLimit, result.queryOffset)
    /\ returned' = returned \o result.visits
    /\ runs' = runs + 1
    /\ UNCHANGED <<source, count, firstOffset>>
    /\ UNCHANGED <<reportVars, invs>>

Next ==
    Begin \/ Fetch \/ FetchFail \/ Process \/ ExitLoop \/ Finish \/ LookupFail \/ Resume

Spec == Init /\ [][Next]_vars

\* one invocation on its own, its steps taken: an await resumes, the code runs on
NextInvocation ==
    Begin \/ Fetch \/ FetchFail \/ Process \/ ExitLoop \/ Finish \/ LookupFail

FairSpec ==
    Init /\ [][NextInvocation]_vars /\ WF_vars(Fetch \/ Process \/ ExitLoop \/ Finish)

TypeOK ==
    /\ pc \in {"idle", "loop", "page", "post", "done", "failed"}
    /\ gotAllRecordings \in BOOLEAN
    /\ numRecordings \in Nat
    /\ builderOffset \in Nat

\* ------------------------------------------------------------- audio bait
\* values of JavaScript that end up in a cell of a row: a string or undefined
Str(x) == [type |-> "string", value |-> x]
Undefined == [type |-> "undefined", value |-> ""]

\* String(v), as the + operator applies it to an operand that is not a string
ToStr(v) == IF v.type = "undefined" THEN "undefined" ELSE v.value

\* v += x for a string x
Concat(v, x) == Str(ToStr(v) \o x)

\* if (volume): undefined and 0 are falsy
Truthy(volume) == volume # Null /\ volume # 0

FileIds == {1, 2}
Volumes == {Null, 5}

\* the files File.getMultiple finds: file 2 is gone
AudioFiles == [f \in {1} |-> "possum.wav"]

BaitEvents == [dateTime : Times, fileId : FileIds, volume : Volumes]

BaitKey(b) == 4 * b.dateTime + 2 * (b.fileId - 1) + (IF b.volume = Null THEN 0 ELSE 1)

\* the audio bait events of the device, as the Event table lists them
BaitLists ==
    { bs \in UNION {[1..n -> BaitEvents] : n \in 0..MaxBaits} :
        \A i \in 1..(Len(bs) - 1) : BaitKey(bs[i]) <= BaitKey(bs[i + 1]) }

WithBaitIds(bs) ==
    [i \in 1..Len(bs) |-> [id |-> i, dateTime |-> bs[i].dateTime, fileId |-> bs[i].fileId,
                           volume |-> bs[i].volume, fileName |-> Undefined]]

\* mutant: only the events before the recording are fetched
AudioEventsWindowBeforeOnly(t) == [after |-> t - Day, before |-> t - 1]

\* lines 701-704: the audio events fetched with a recording lie within a day of it
AudioEventsWindow(t) == [after |-> t - Day, before |-> t + Day]

FetchedAudioEvents(rec, bs) ==
    {i \in 1..Len(bs) : /\ AudioEventsWindow(rec.t).after <= bs[i].dateTime
                        /\ bs[i].dateTime <= AudioEventsWindow(rec.t).before}

\* Audio Bait Matcher: of the events fetched with the visit's recordings, those
\* inside [start, end] and the nearest ones before the start within the lookback
VisitAudioBaitEvents(v, src, bs) ==
    LET cand == UNION {FetchedAudioEvents(src[id], bs) : id \in SeqRange(v.events)}
        Inside(i) == v.start <= bs[i].dateTime /\ bs[i].dateTime <= v.end
        Nearest(i) == /\ bs[i].dateTime < v.start
                      /\ bs[i].dateTime >= v.start - Day
                      /\ \A j \in cand : bs[j].dateTime < v.start
                                            => bs[j].dateTime <= bs[i].dateTime
        Assigned(b) == b.id \in {i \in cand : Inside(i) \/ Nearest(i)}
    IN  SelectSeq(WithBaitIds(bs), Assigned)

\* the visits queryVisits gathers when nothing limits it, with their audio bait
GatheredVisits(src, bs) ==
    { [k \in 1..Len(vs) |->
          [deviceId |-> vs[k].deviceId, start |-> vs[k].start, end |-> vs[k].end,
           events |-> [i \in 1..Len(vs[k].events) |->
                          [recID |-> vs[k].events[i], start |-> src[vs[k].events[i]].t]],
           audioBaitEvents |-> VisitAudioBaitEvents(vs[k], src, bs)]] :
      vs \in SortOutcomes(CompleteVisits(GenerateVisits(NewDeviceSummary, src, 0, TRUE))) }

\* line 756: devSummary.allAudioFileIds()
AllAudioFileIds(visits) ==
    UNION {{visits[k].audioBaitEvents[i].fileId : i \in 1..Len(visits[k].audioBaitEvents)} :
              k \in 1..Len(visits)}

\* lines 768-772: audioFileNames holds the name of every file that was found
AudioFileNames(ids) ==
    [f \in FileIds |-> IF f \in ids /\ f \in DOMAIN AudioFiles
                       THEN Str(AudioFiles[f]) ELSE Undefined]

\* lines 775-780: every audio bait event gets the name found for its file
NameAudioEvents(visits, names) ==
    [k \in 1..Len(visits) |->
        LET events == visits[k].audioBaitEvents
        IN  [visits[k] EXCEPT !.audioBaitEvents =
                [i \in 1..Len(events) |->
                    [events[i] EXCEPT !.fileName = names[events[i].fileId]]]]]

\* ----------------------------------------------------------- reportVisits
Reverse(s) == [i \in 1..Len(s) |-> s[Len(s) + 1 - i]]

SortedByDateTimeAsc(s) == \A i \in 1..(Len(s) - 1) : s[i].dateTime <= s[i + 1].dateTime

\* lines 876-878: audioBaitEvents.sort with a comparator that never answers 0;
\* the order of events of equal dateTime is the engine's choice
AudioSortOutcomes(events) ==
    {s \in {[i \in 1..Len(events) |-> events[p[i]]] : p \in Perms(Len(events))} :
        SortedByDateTimeAsc(s)}

\* one sort outcome for each visit
SortChoices(visits) ==
    {f \in [1..Len(visits) ->
               UNION {AudioSortOutcomes(visits[k].audioBaitEvents) : k \in 1..Len(visits)}] :
        \A k \in 1..Len(visits) : f[k] \in AudioSortOutcomes(visits[k].audioBaitEvents)}

\* audioEvent = audioEvents.pop(); audioEvent is <<>> when pop() gave undefined
Pop(audioEvents) ==
    IF audioEvents = <<>>
    THEN [audioEvents |-> <<>>, audioEvent |-> <<>>]
    ELSE [audioEvents |-> SubSeq(audioEvents, 1, Len(audioEvents) - 1),
          audioEvent |-> <<audioEvents[Len(audioEvents)]>>]

\* mutant: an audio bait at the very start of the event goes before it
AudioBaitBeforeOrAt(st, start) ==
    st.audioEvent # <<>> /\ st.audioEvent[1].dateTime >= start

\* lines 887, 896: audioTime && audioTime.isAfter(event.start)
AudioBaitBefore(st, start) ==
    st.audioEvent # <<>> /\ st.audioEvent[1].dateTime > start

\* lines 910-927
AddVisitRow(rows, visit) == Append(rows, [type |-> "Visit", time |-> visit.start])

\* lines 929-947
AddEventRow(rows, event) ==
    Append(rows, [type |-> "Event", recID |-> event.recID, time |-> event.start])

\* lines 949-970; the field event is not a column: it tells which event the row is of
AddAudioBaitRow(rows, audioBait) ==
    LET audioPlayed == IF Truthy(audioBait.volume)
                       THEN Concat(audioBait.fileName, " vol " \o ToString(audioBait.volume))
                       ELSE audioBait.fileName
    IN  Append(rows, [type |-> "Audio Bait", event |-> audioBait.id,
                      time |-> audioBait.dateTime, what |-> audioBait.fileName,
                      audioPlayed |-> audioPlayed])

\* lines 888-897: the while loop
RECURSIVE FlushAudioBait(_, _, _)
FlushAudioBait(st, rows, start) ==
    IF AudioBaitBefore(st, start)
    THEN FlushAudioBait(Pop(st.audioEvents), AddAudioBaitRow(rows, st.audioEvent[1]), start)
    ELSE [st |-> st, rows |-> rows]

\* lines 886-899: the loop over visit.events
RECURSIVE ForEvents(_, _, _, _)
ForEvents(st, rows, events, i) ==
    IF i > Len(events) THEN [st |-> st, rows |-> rows]
    ELSE LET f == FlushAudioBait(st, rows, events[i].start)
         IN  ForEvents(f.st, AddEventRow(f.rows, events[i]), events, i + 1)

\* lines 903-905
RECURSIVE AddAudioBaitRows(_, _, _)
AddAudioBaitRows(rows, audioEvents, i) ==
    IF i > Len(audioEvents) THEN rows
    ELSE AddAudioBaitRows(AddAudioBaitRow(rows, audioEvents[i]), audioEvents, i + 1)

\* mutant: the audio bait that was popped and not flushed is forgotten
PushBackNever(st) == st.audioEvents

\* lines 900-902: if (audioEvent) audioEvents.push(audioEvent)
PushBack(st) ==
    IF st.audioEvent # <<>> THEN Append(st.audioEvents, st.audioEvent[1]) ELSE st.audioEvents

\* lines 874-905: the rows of one visit; sort, pop, push and reverse work on the
\* array visit.audioBaitEvents itself, which is left as they leave it
ReportVisit(rows, visit, sorted) ==
    LET walked   == ForEvents(Pop(sorted), AddVisitRow(rows, visit), visit.events, 1)
        pushed   == PushBack(walked.st)
        reversed == Reverse(pushed)
    IN  [rows |-> AddAudioBaitRows(walked.rows, reversed, 1),
         visit |-> [visit EXCEPT !.audioBaitEvents = reversed]]

\* lines 873-906: the loop over results.visits
RECURSIVE ReportAll(_, _, _, _)
ReportAll(rows, visits, sorts, k) ==
    IF k > Len(visits) THEN [rows |-> rows, visits |-> visits]
    ELSE LET r == ReportVisit(rows, visits[k], sorts[k])
         IN  ReportAll(r.rows, [visits EXCEPT ![k] = r.visit], sorts, k + 1)

\* the recordings of one device
ReportSources == {s \in Sources : \A i \in 1..Len(s) : s[i].DeviceId = 1}

ReportInit ==
    /\ source \in ReportSources
    /\ count = Len(source)
    /\ pc = "idle"
    /\ reqLimit = Null
    /\ reqOffset = Null
    /\ builderLimit = 0
    /\ builderOffset = 0
    /\ devSummary = NewDeviceSummary
    /\ numRecordings = 0
    /\ remainingVisits = 0
    /\ totalCount = Null
    /\ recordings = <<>>
    /\ gotAllRecordings = FALSE
    /\ calls = NoCalls
    /\ result = NoResult
    /\ runs = 0
    /\ firstOffset = Null
    /\ returned = <<>>
    /\ failure = NoFailure
    /\ baits \in BaitLists
    /\ rvisits = <<>>
    /\ out = <<>>
    /\ rpc = "start"
    /\ invs = [i \in Invocations |-> IdleInvocation]

\* line 852, lines 691-758: queryVisits gathers the visits and their audio bait
GatherVisits ==
    /\ rpc = "start"
    /\ rvisits' \in GatheredVisits(source, baits)
    /\ rpc' = "gathered"
    /\ UNCHANGED <<baits, out>>
    /\ UNCHANGED <<queryVars, invs>>

\* lines 756, 768-780: the names of the audio files are looked up and set
LookupNames ==
    /\ rpc = "gathered"
    /\ rvisits' = NameAudioEvents(rvisits, AudioFileNames(AllAudioFileIds(rvisits)))
    /\ rpc' = "named"
    /\ UNCHANGED <<baits, out>>
    /\ UNCHANGED <<queryVars, invs>>

\* lines 853-907: the rows of every visit
ReportVisits ==
    /\ rpc = "named"
    /\ \E sorts \in SortChoices(rvisits) :
          LET r == ReportAll(<<>>, rvisits, sorts, 1)
          IN  /\ out' = r.rows
              /\ rvisits' = r.visits
    /\ rpc' = "reported"
    /\ UNCHANGED baits
    /\ UNCHANGED <<queryVars, invs>>

ReportNext == GatherVisits \/ LookupNames \/ ReportVisits

ReportSpec == ReportInit /\ [][ReportNext]_vars

\* ------------------------------------------------------ reportDeviceVisits
Animals == {"possum", "rat"}

\* a visit as the summary of its device sees it: the device, the assumed tag,
\* the number of its events (at least one)
TaggedVisits == [deviceId : Devices, what : Animals, numEvents : 1..MaxEvents]

\* the visits of a result, those of one device together
VisitLogs ==
    { vs \in UNION {[1..n -> TaggedVisits] : n \in 0..MaxVisits} :
        \A i \in 1..(Len(vs) - 1) : vs[i].deviceId <= vs[i + 1].deviceId }

RECURSIVE SumEvents(_, _)
SumEvents(vs, i) == IF i > Len(vs) THEN 0 ELSE vs[i].numEvents + SumEvents(vs, i + 1)

\* the keys of animalSummary, in the order the animals were first met
RECURSIVE AnimalsMet(_, _, _)
AnimalsMet(vs, i, met) ==
    IF i > Len(vs) THEN met
    ELSE AnimalsMet(vs, i + 1,
                    IF vs[i].what \in SeqRange(met) THEN met ELSE Append(met, vs[i].what))

\* DeviceVisits: visitCount, eventCount and animalSummary() of one device
DeviceVisitsOf(vs, d) ==
    LET mine == SelectSeq(vs, LAMBDA v : v.deviceId = d)
        met  == AnimalsMet(mine, 1, <<>>)
    IN  [visitCount |-> Len(mine),
         eventCount |-> SumEvents(mine, 1),
         animals |-> met,
         animalSummary |->
            [a \in SeqRange(met) |->
                LET its == SelectSeq(mine, LAMBDA v : v.what = a)
                IN  [visitCount |-> Len(its), eventCount |-> SumEvents(its, 1)]]]

\* results.summary.deviceMap: the devices that have a visit
DeviceMapOf(vs) ==
    [d \in {vs[i].deviceId : i \in 1..Len(vs)} |-> DeviceVisitsOf(vs, d)]

\* a number of JavaScript that is a ratio of two integers
Ratio(n, d) == [num |-> n, den |-> d]

\* lines 821-824: Math.round((10 * eventCount) / visitCount) / 10; Math.round
\* rounds a half up
DeviceAverage(deviceVisits) ==
    Ratio((20 * deviceVisits.eventCount + deviceVisits.visitCount)
              \div (2 * deviceVisits.visitCount), 10)

\* line 841: summary.visitCount / summary.eventCount
AnimalAverage(summary) == Ratio(summary.visitCount, summary.eventCount)

\* lines 832-846: the rows of the animals of a device
RECURSIVE AnimalRows(_, _, _, _)
AnimalRows(rows, d, deviceVisits, i) ==
    IF i > Len(deviceVisits.animals) THEN rows
    ELSE LET animal  == deviceVisits.animals[i]
             summary == deviceVisits.animalSummary[animal]
         IN  AnimalRows(Append(rows, [type |-> "Animal", deviceId |-> d, animal |-> animal,
                                      visits |-> summary.visitCount,
                                      average |-> AnimalAverage(summary)]),
                        d, deviceVisits, i + 1)

\* lines 811-847: the row of each device, then the rows of its animals
RECURSIVE DeviceRowsOut(_, _, _)
DeviceRowsOut(rows, deviceMap, d) ==
    IF d > NumDevices THEN rows
    ELSE IF d \notin DOMAIN deviceMap THEN DeviceRowsOut(rows, deviceMap, d + 1)
    ELSE LET deviceVisits == deviceMap[d]
             row == [type |-> "Device", deviceId |-> d, visits |-> deviceVisits.visitCount,
                     average |-> DeviceAverage(deviceVisits)]
         IN  DeviceRowsOut(AnimalRows(Append(rows, row), d, deviceVisits, 1),
                           deviceMap, d + 1)

\* lines 792-849
ReportDeviceVisits(deviceMap) == DeviceRowsOut(<<>>, deviceMap, 1)

SummaryInit ==
    /\ source = <<>>
    /\ count = 0
    /\ pc = "idle"
    /\ reqLimit = Null
    /\ reqOffset = Null
    /\ builderLimit = 0
    /\ builderOffset = 0
    /\ devSummary = NewDeviceSummary
    /\ numRecordings = 0
    /\ remainingVisits = 0
    /\ totalCount = Null
    /\ recordings = <<>>
    /\ gotAllRecordings = FALSE
    /\ calls = NoCalls
    /\ result = NoResult
    /\ runs = 0
    /\ firstOffset = Null
    /\ returned = <<>>
    /\ failure = NoFailure
    /\ baits = <<>>
    /\ rvisits \in VisitLogs
    /\ out = <<>>
    /\ rpc = "summary"
    /\ invs = [i \in Invocations |-> IdleInvocation]

\* line 853: const out = reportDeviceVisits(results.summary.deviceMap)
SummariseDevices ==
    /\ rpc = "summary"
    /\ out' = ReportDeviceVisits(DeviceMapOf(rvisits))
    /\ rpc' = "summarised"
    /\ UNCHANGED <<baits, rvisits>>
    /\ UNCHANGED <<queryVars, invs>>

SummaryNext == SummariseDevices

SummarySpec == SummaryInit /\ [][SummaryNext]_vars

\* ------------------------------------------- two invocations of queryVisits
\* lines 679-713: the locals after the set-up, at the first test of the loop
StartedInvocation(limit, offset) ==
    [pc |-> IF LoopCondition(FALSE, RequestVisits(limit)) THEN "loop" ELSE "post",
     reqLimit |-> limit, reqOffset |-> offset,
     builderLimit |-> InitialQueryLimit(limit),
     builderOffset |-> BuilderInitOffset(offset),
     devSummary |-> NewDeviceSummary, numRecordings |-> 0,
     remainingVisits |-> RequestVisits(limit), totalCount |-> Null,
     recordings |-> <<>>, gotAllRecordings |-> FALSE, result |-> NoResult]

\* mutant: one Device Summary for the module, the one of the first invocation
DevSummaryShared(all, i) == all[1].devSummary

\* line 706: const devSummary = new DeviceSummary() is a local of the invocation
DevSummaryOf(all, i) == all[i].devSummary

\* lines 716-746 and the test of line 715 that follows: a fetch resolves, the
\* page is processed, the loop goes on to the next fetch or ends
PageStep(st, ds, src, cnt) ==
    LET rows   == FetchRows(src, st.builderOffset, st.builderLimit)
        total  == IF WantCount(st.totalCount) THEN cnt ELSE st.totalCount
        gotAll == GotAllRecordings(rows, st.builderOffset)
        read   == [st EXCEPT !.recordings = rows, !.totalCount = total,
                             !.numRecordings = @ + Len(rows),
                             !.gotAllRecordings = gotAll]
    IN  IF BreakOnEmpty(rows) THEN [read EXCEPT !.pc = "post"]
        ELSE LET fed     == GenerateVisits(ds, rows,
                                PageOffset(st.reqOffset, st.builderOffset), gotAll)
                 checked == IF ~gotAll THEN CheckForCompleteVisits(fed) ELSE fed
                 remain  == RequestVisits(st.reqLimit) - CompleteVisitsCount(checked)
             IN  [read EXCEPT !.devSummary = checked,
                              !.remainingVisits = remain,
                              !.builderLimit = NextLimit(remain),
                              !.builderOffset = AdvanceOffset(st.builderOffset, rows),
                              !.pc = IF LoopCondition(gotAll, remain) THEN "loop" ELSE "post"]

\* lines 749-789: the results the code after the loop can return
FinishOutcomes(st, ds) ==
    LET fin == Finalize(ds, st.gotAllRecordings)
    IN  { [st EXCEPT !.devSummary = fin.summary,
                     !.pc = "done",
                     !.result = [visits |-> visits,
                                 hasMoreVisits |-> ~st.gotAllRecordings,
                                 queryOffset |-> ResultQueryOffset(fin.summary, visits),
                                 totalRecordings |-> st.totalCount,
                                 numRecordings |-> st.numRecordings,
                                 numVisits |-> Len(visits)]] :
          visits \in SortOutcomes(CompleteVisits(fin.summary)) }

\* the requests run together read one device's recordings
ConcInit ==
    /\ source \in ReportSources
    /\ count = Len(source)
    /\ pc = "idle"
    /\ reqLimit = Null
    /\ reqOffset = Null
    /\ builderLimit = 0
    /\ builderOffset = 0
    /\ devSummary = NewDeviceSummary
    /\ numRecordings = 0
    /\ remainingVisits = 0
    /\ totalCount = Null
    /\ recordings = <<>>
    /\ gotAllRecordings = FALSE
    /\ calls = NoCalls
    /\ result = NoResult
    /\ runs = 0
    /\ firstOffset = Null
    /\ returned = <<>>
    /\ failure = NoFailure
    /\ baits = <<>>
    /\ rvisits = <<>>
    /\ out = <<>>
    /\ rpc = "off"
    /\ invs = [i \in Invocations |-> IdleInvocation]

\* a request comes in: lines 679-713 run up to the first fetch
ConcBegin(i) ==
    /\ invs[i].pc = "idle"
    /\ \E limit \in Limits, offset \in Offsets :
          invs' = [invs EXCEPT ![i] = StartedInvocation(limit, offset)]
    /\ UNCHANGED <<queryVars, reportVars>>

\* the fetch of invocation i resolves and its code runs to the next await
ConcPage(i) ==
    /\ invs[i].pc = "loop"
    /\ invs' = [invs EXCEPT ![i] = PageStep(invs[i], DevSummaryOf(invs, i), source, count)]
    /\ UNCHANGED <<queryVars, reportVars>>

\* the lookup of the audio files of invocation i resolves and it returns
ConcFinish(i) ==
    /\ invs[i].pc = "post"
    /\ \E st \in FinishOutcomes(invs[i], DevSummaryOf(invs, i)) :
          invs' = [invs EXCEPT ![i] = st]
    /\ UNCHANGED <<queryVars, reportVars>>

ConcNext == \E i \in Invocations : ConcBegin(i) \/ ConcPage(i) \/ ConcFinish(i)

ConcSpec == ConcInit /\ [][ConcNext]_vars

\* ------------------------------------------------------------------ claims
LastVisit(vs) == vs[Len(vs)]

\* the visits of one run over everything from the offset on, as the Device
\* Summary builds them when it is fed the whole source and then exhausted
UnpaginatedVisits(offset) ==
    LET from == BuilderInitOffset(offset)
    IN  CompleteVisits(MarkCompleted(
            GenerateVisits(NewDeviceSummary, FetchRows(source, from, Len(source)), from, FALSE)))

Grouping(vs) == {[deviceId |-> vs[i].deviceId, events |-> vs[i].events] : i \in 1..Len(vs)}

AllReturned == returned \o result.visits

\* the source reports the number of rows it holds
ConsistentSource == count = Len(source)

\* C1: paging with a visit limit from the returned queryOffset until
\* hasMoreVisits is false returns the visits of the unpaginated run: no recording
\* is in two returned visits, and at the end the groupings are the same.
C1_PagedRunsEqualUnpaginated ==
    (pc = "done" /\ ConsistentSource /\ reqLimit # Null /\ reqLimit > 0) =>
        /\ \A i, j \in 1..Len(AllReturned) :
              i # j => SeqRange(AllReturned[i].events) \cap SeqRange(AllReturned[j].events) = {}
        /\ ~result.hasMoreVisits => Grouping(AllReturned) = Grouping(UnpaginatedVisits(firstOffset))

\* C2: a fetch is issued only while gotAllRecordings is not true and
\* remainingVisits is above 0; once either fails the loop is left.
C2_NoFetchOnceDone ==
    [][Fetches' > Fetches => (~gotAllRecordings /\ remainingVisits > 0)]_vars

C2_Witness ==
    /\ pc = "post"
    /\ calls.generateVisits >= 2
    /\ remainingVisits <= 0
    /\ ~gotAllRecordings

\* C3: the returned visits are all complete; markCompleted is called when the
\* loop ended by exhaustion, removeIncompleteVisits otherwise; exactly one of
\* them, once, and only after the loop.
C3_CompleteOrRemoved ==
    /\ pc \in {"idle", "loop", "page", "post"} =>
          calls.markCompleted = 0 /\ calls.removeIncompleteVisits = 0
    /\ pc = "done" =>
          /\ \A i \in 1..Len(result.visits) : result.visits[i].complete
          /\ IncompleteVisits(devSummary) = <<>>
          /\ calls.markCompleted + calls.removeIncompleteVisits = 1
          /\ gotAllRecordings => calls.markCompleted = 1 /\ devSummary.discarded = {}
          /\ ~gotAllRecordings => calls.removeIncompleteVisits = 1

C3_Witness ==
    /\ pc = "done"
    /\ ~gotAllRecordings
    /\ devSummary.discarded # {}
    /\ Len(result.visits) > 0

\* C4: an empty page before the declared total count is reached ends the loop
\* at once: generateVisits is not called for it, no fetch follows, and the next
\* step builds the result.
C4_EmptyPageLeavesLoop ==
    [][/\ (Fetches' > Fetches /\ failure'.raised = NoError
           /\ recordings' = <<>> /\ builderOffset < totalCount')
           => (pc' = "post" /\ calls'.generateVisits = calls.generateVisits)
       /\ pc = "post"
           => ((pc' = "done" \/ failure'.raised # NoError) /\ Fetches' = Fetches
               /\ calls'.generateVisits = calls.generateVisits)]_vars

C4_Witness ==
    /\ pc = "done"
    /\ Fetches >= 2
    /\ recordings = <<>>
    /\ builderOffset < totalCount
    /\ Len(result.visits) > 0

\* C5: every invocation ends, whatever count the source reports and whatever
\* limit and offset the request gives: the pages fetched are at most the rows
\* from the starting offset on plus one empty page, each is handed to
\* generateVisits at most once, and a fetch the loop test asks for is never
\* held back, so no run goes on for ever and none stops before its result.
RowsFrom(offset) == IF Len(source) > offset THEN Len(source) - offset ELSE 0

C5_Terminates ==
    pc \in {"loop", "page", "post"} =>
        /\ Fetches <= RowsFrom(BuilderInitOffset(reqOffset)) + 1
        /\ calls.generateVisits <= Fetches
        /\ numRecordings <= RowsFrom(BuilderInitOffset(reqOffset))
        /\ Fetches < MaxFetches

C5_Witness ==
    /\ pc = "done"
    /\ Fetches >= 2
    /\ totalCount # Len(source)
    /\ reqOffset # Null /\ reqOffset > 0

\* C6: hasMoreVisits is true when the loop stopped on enough complete visits with
\* recordings left in the source, and false when every recording from the
\* starting offset on was consumed (the last page reached the total count).
C6_HasMoreVisits ==
    (pc = "done" /\ ConsistentSource) =>
        /\ (calls.generateVisits > 0 /\ remainingVisits <= 0 /\ builderOffset < Len(source))
              => result.hasMoreVisits
        /\ (Fetches > 0 /\ builderOffset >= Len(source) /\ builderOffset >= totalCount)
              => ~result.hasMoreVisits

\* C7: the returned queryOffset is earliestIncompleteOffset() when a visit was
\* incomplete; otherwise it is one past the queryOffset of the oldest returned
\* visit and greater than the queryOffset of every returned visit.
C7_QueryOffset ==
    pc = "done" =>
        LET inc == EarliestIncompleteOffset(devSummary)
        IN  /\ inc # Null => result.queryOffset = inc
            /\ (inc = Null /\ Len(result.visits) > 0) =>
                  /\ result.queryOffset = LastVisit(result.visits).queryOffset + 1
                  /\ \A i \in 1..Len(result.visits) :
                        result.queryOffset > result.visits[i].queryOffset

\* C8: every fetch, the first included, asks for min(remainingVisits * 2, 10000)
\* rows, remainingVisits being requestVisits less the complete visits so far.
C8_FetchLimit ==
    [][Fetches' > Fetches =>
          builderLimit =
              Min((RequestVisits(reqLimit) - CompleteVisitsCount(devSummary)) * 2, 10000)]_vars

C8_Witness ==
    /\ pc \in {"page", "post"}
    /\ calls.findAll >= 1
    /\ CompleteVisitsCount(devSummary) > 0
    /\ reqLimit # Null
    /\ remainingVisits > 0

\* C9: the returned visits are sorted by start descending, and visits of equal
\* start are in the order in which they were fetched.
C9_SortedStable ==
    pc = "done" =>
        /\ SortedByStartDesc(result.visits)
        /\ \A i, j \in 1..Len(result.visits) :
              (i < j /\ result.visits[i].start = result.visits[j].start)
                  => result.visits[i].events[1] < result.visits[j].events[1]

ConsumedIds(d) ==
    {i \in 1..Len(source) :
        /\ source[i].DeviceId = d
        /\ i > BuilderInitOffset(reqOffset)
        /\ i <= BuilderInitOffset(reqOffset) + numRecordings}

RECURSIVE EventsOf(_, _)
EventsOf(vs, k) == IF k > Len(vs) THEN <<>> ELSE vs[k].events \o EventsOf(vs, k + 1)

TimeOf(id) == source[id].t

\* C11: in the loop, the visits of a device hold the recordings consumed for it,
\* each once and in the order fed; two neighbours in one visit are within the
\* visit interval and the last of a visit and the first of the next are not,
\* also when the two lie on different pages.
C11_VisitsSplitOnInterval ==
    pc = "loop" =>
        \A d \in Devices :
            LET vs == devSummary.deviceMap[d]
                es == EventsOf(vs, 1)
            IN  /\ SeqRange(es) = ConsumedIds(d)
                /\ \A i \in 1..(Len(es) - 1) : es[i] < es[i + 1]
                /\ \A k \in 1..Len(vs) : \A i \in 1..(Len(vs[k].events) - 1) :
                      IsWithinVisitInterval(TimeOf(vs[k].events[i]), TimeOf(vs[k].events[i + 1]))
                /\ \A k \in 1..(Len(vs) - 1) :
                      ~IsWithinVisitInterval(TimeOf(vs[k].events[Len(vs[k].events)]),
                                             TimeOf(vs[k + 1].events[1]))

\* a visit that took recordings from two pages, next to a later visit
C11_Witness ==
    /\ pc = "loop"
    /\ reqLimit = 1
    /\ reqOffset = 0
    /\ \E d \in Devices :
          /\ Len(devSummary.deviceMap[d]) >= 1
          /\ Len(devSummary.deviceMap[d][1].events) >= 3

\* C17: after each iteration gotAllRecordings is true exactly when the rows of
\* the page plus the offset it was fetched at reach the total count.
C17_GotAllMeansCountReached ==
    (pc = "page" \/ (pc = "post" /\ recordings = <<>> /\ Fetches > 0)) =>
        (gotAllRecordings <=> (Len(recordings) + builderOffset >= totalCount))

\* C18: a visit's queryOffset is the offset in the source at which its last
\* consumed recording was found, also for visits built from later pages.
C18_QueryOffsetOfLastRecording ==
    pc \in {"loop", "post"} =>
        \A d \in Devices : \A k \in 1..Len(devSummary.deviceMap[d]) :
            LET v == devSummary.deviceMap[d][k]
            IN  v.queryOffset = v.events[Len(v.events)] - 1

\* an older recording of the visit's device was consumed after the visit's last
OlderSeen(v) == \E i \in ConsumedIds(v.deviceId) : i > v.events[Len(v.events)]

\* C19: while gotAllRecordings is not true, a visit counts as complete only when
\* an older recording of its device has been seen; the visit holding the oldest
\* recording seen of its device is incomplete and is not returned.
C19_CompleteNeedsOlderRecording ==
    (pc \in {"loop", "post", "done"} /\ ~gotAllRecordings) =>
        /\ \A d \in Devices : \A k \in 1..Len(devSummary.deviceMap[d]) :
              LET v == devSummary.deviceMap[d][k]
              IN  v.complete <=> OlderSeen(v)
        /\ \A i \in 1..Len(result.visits) : OlderSeen(result.visits[i])

C19_Witness ==
    /\ pc = "done"
    /\ ~gotAllRecordings
    /\ Len(result.visits) >= 1
    /\ \E d \in Devices : ConsumedIds(d) # {} /\ Len(devSummary.deviceMap[d]) = 0

\* C20: at the start of every iteration and at loop exit the cursor is the
\* starting offset plus numRecordings; a fetch adds the rows of its page to
\* numRecordings and its page starts right after the rows fetched before.
C20_CursorAdvancesByRows ==
    [][/\ pc' \in {"loop", "post"} =>
              builderOffset' = BuilderInitOffset(reqOffset') + numRecordings'
       /\ (Fetches' > Fetches /\ failure'.raised = NoError) =>
              /\ numRecordings' = numRecordings + Len(recordings')
              /\ recordings' # <<>> =>
                    recordings'[1].id = BuilderInitOffset(reqOffset) + numRecordings + 1
              /\ \A i \in 1..(Len(recordings') - 1) :
                    recordings'[i + 1].id = recordings'[i].id + 1]_vars

C20_Witness ==
    /\ pc = "post"
    /\ Fetches >= 2
    /\ numRecordings >= 3
    /\ reqLimit # Null

\* C13: when a fetch of recordings or the lookup of the audio files fails, the
\* invocation ends there: the caller gets the error that was raised, unchanged,
\* no result object is built, and a result is only ever built when nothing failed.
C13_FailurePropagates ==
    [][/\ failure'.raised # NoError =>
              /\ pc' = "failed"
              /\ failure'.thrown = failure'.raised
              /\ result' = NoResult
       /\ pc' = "done" => failure' = NoFailure
       /\ pc = "failed" => (pc' = "failed" /\ result' = NoResult)]_vars

\* a fetch failed after complete visits had been gathered: none is returned
C13_Witness ==
    /\ pc = "failed"
    /\ failure.raised \in Errors
    /\ calls.getMultiple = 0
    /\ CompleteVisitsCount(devSummary) > 0
    /\ result = NoResult

\* the visit a row belongs to: the number of Visit rows up to it
RowVisit(rows, i) == Cardinality({j \in 1..i : rows[j].type = "Visit"})

\* C12: within the rows of one visit, whose events are stored in descending
\* start order, the Event and Audio Bait rows never go up in time, and an Audio
\* Bait row stands before an Event row exactly when the bait was played after
\* the start of that event; the baits after the last event come in descending order.
C12_RowsDescendInTime ==
    rpc = "reported" =>
        \A i, j \in 1..Len(out) :
            (i < j /\ RowVisit(out, i) = RowVisit(out, j)
                   /\ out[i].type # "Visit" /\ out[j].type # "Visit") =>
                /\ out[i].time >= out[j].time
                /\ (out[i].type = "Audio Bait" /\ out[j].type = "Event")
                       => out[i].time > out[j].time
                /\ (out[i].type = "Event" /\ out[j].type = "Audio Bait")
                       => ~(out[j].time > out[i].time)

\* a bait between two events of a visit, and a bait left over after the last event
C12_Witness ==
    /\ rpc = "reported"
    /\ \E i \in 1..(Len(out) - 3) :
          /\ out[i].type = "Event"
          /\ out[i + 1].type = "Audio Bait"
          /\ out[i + 2].type = "Event"
          /\ out[i + 3].type = "Audio Bait"

\* a cell that shows nothing
Blank(v) == v.type = "undefined" \/ v.value = ""

\* C14: an audio bait event whose file the lookup did not find still gets its
\* Audio Bait row among the rows of its visit, and the What and Audio Played
\* cells of that row are blank, with or without a volume.
C14_MissingNameLeftBlank ==
    [][(rpc = "named" /\ rpc' = "reported") =>
          \A k \in 1..Len(rvisits) : \A i \in 1..Len(rvisits[k].audioBaitEvents) :
              LET e == rvisits[k].audioBaitEvents[i]
              IN  e.fileId \notin DOMAIN AudioFiles =>
                      \E j \in 1..Len(out') :
                          /\ out'[j].type = "Audio Bait"
                          /\ out'[j].event = e.id
                          /\ RowVisit(out', j) = k
                          /\ Blank(out'[j].what)
                          /\ Blank(out'[j].audioPlayed)]_vars

BaitIds(v) == {v.audioBaitEvents[i].id : i \in 1..Len(v.audioBaitEvents)}

InsideVisit(v, i) == v.start <= baits[i].dateTime /\ baits[i].dateTime <= v.end

\* C16: every audio bait event of the device played within [start, end] of a
\* visit is in the audioBaitEvents of that visit, and no audio bait event lies
\* within [start, end] of two visits of the device.
C16_BaitInsideVisitAssigned ==
    rpc \in {"gathered", "named"} =>
        \A i \in 1..Len(baits) :
            /\ \A k \in 1..Len(rvisits) :
                  InsideVisit(rvisits[k], i) => i \in BaitIds(rvisits[k])
            /\ \A k, l \in 1..Len(rvisits) :
                  (InsideVisit(rvisits[k], i) /\ InsideVisit(rvisits[l], i)) => k = l

\* two visits of the device, each with a bait played inside it
C16_Witness ==
    /\ rpc = "gathered"
    /\ Len(rvisits) = 2
    /\ Len(baits) = 2
    /\ InsideVisit(rvisits[1], 2) /\ 2 \in BaitIds(rvisits[1])
    /\ InsideVisit(rvisits[2], 1) /\ 1 \in BaitIds(rvisits[2])
    /\ rvisits[1].start < rvisits[1].end

\* the states an invocation goes through when it runs alone
RECURSIVE AloneFrom(_)
AloneFrom(st) ==
    IF st.pc = "loop" THEN {st} \cup AloneFrom(PageStep(st, st.devSummary, source, count))
    ELSE {st} \cup FinishOutcomes(st, st.devSummary)

AloneRun(limit, offset) == AloneFrom(StartedInvocation(limit, offset))

\* C15: of two invocations whose steps interleave at the fetches, each has at
\* every await the Device Summary, the cursor and the other locals it has at
\* that point when it runs alone against the same source, and each returns a
\* result it returns when run alone.
C15_InvocationsIndependent ==
    \A i \in Invocations :
        invs[i].pc # "idle" => invs[i] \in AloneRun(invs[i].reqLimit, invs[i].reqOffset)

\* both invocations are in their loops, each with visits of its own
C15_Witness ==
    /\ invs[1].pc = "loop" /\ invs[2].pc = "loop"
    /\ invs[1].numRecordings > 0 /\ invs[2].numRecordings > 0
    /\ invs[1].builderOffset # invs[2].builderOffset
    /\ invs[1].devSummary # invs[2].devSummary

\* C21: within one invocation the count is asked of the source by the first
\* fetch only; every later fetch asks for rows alone, whatever the count was.
C21_CountAskedOnce ==
    [][/\ calls'.findAndCountAll > calls.findAndCountAll => Fetches = 0
       /\ (Fetches' > Fetches /\ Fetches > 0) => calls'.findAll = calls.findAll + 1]_vars

\* C22: in one invocation the audio files are looked up exactly once, after
\* the last fetch and after the open visits were completed or removed; no page
\* and no visit gets a lookup of its own.
C22_LookupOnceAfterLoop ==
    [][/\ calls'.getMultiple > calls.getMultiple =>
              /\ pc = "post"
              /\ calls.getMultiple = 0 /\ calls'.getMultiple = 1
              /\ calls'.markCompleted + calls'.removeIncompleteVisits = 1
              /\ IncompleteVisits(devSummary') = <<>>
              /\ Fetches' = Fetches
       /\ pc' \in {"loop", "page", "post"} => calls'.getMultiple = 0
       /\ pc' = "done" => calls'.getMultiple = 1]_vars

\* several pages, several visits, one lookup
C22_Witness ==
    /\ pc = "done"
    /\ calls.getMultiple = 1
    /\ Fetches >= 2
    /\ Len(result.visits) >= 2

\* the rows of the k-th visit, in the order they were pushed
BlockOf(rows, k) ==
    LET idx == {j \in 1..Len(rows) : RowVisit(rows, j) = k}
    IN  [i \in 1..Cardinality(idx) |->
            rows[CHOOSE j \in idx : Cardinality({l \in idx : l <= j}) = i]]

IsEventRow(row) == row.type = "Event"
IsAudioBaitRow(row) == row.type = "Audio Bait"

\* C23: reportVisits pushes for every visit, in the order of results.visits,
\* its Visit row first, one Event row for each entry of visit.events in the
\* stored order, and one Audio Bait row for each entry of visit.audioBaitEvents,
\* the one popped last and not flushed included: none is missing, none is twice.
C23_OneRowPerEntry ==
    [][(rpc = "named" /\ rpc' = "reported") =>
          /\ \A j \in 1..Len(out') : RowVisit(out', j) \in 1..Len(rvisits)
          /\ \A k \in 1..Len(rvisits) :
                LET block  == BlockOf(out', k)
                    events == SelectSeq(block, IsEventRow)
                    audio  == SelectSeq(block, IsAudioBaitRow)
                    visit  == rvisits[k]
                IN  /\ Len(block) = 1 + Len(visit.events) + Len(visit.audioBaitEvents)
                    /\ block[1].type = "Visit" /\ block[1].time = visit.start
                    /\ Len(events) = Len(visit.events)
                    /\ \A i \in 1..Len(events) : events[i].recID = visit.events[i].recID
                    /\ Len(audio) = Len(visit.audioBaitEvents)
                    /\ \A i \in 1..Len(visit.audioBaitEvents) :
                          Cardinality({l \in 1..Len(audio) :
                              audio[l].event = visit.audioBaitEvents[i].id}) = 1]_vars

\* after the last event of a visit come the audio bait popped last and one
\* that was never popped
C23_Witness ==
    /\ rpc = "reported"
    /\ Len(out) >= 4
    /\ out[Len(out)].type = "Audio Bait"
    /\ out[Len(out) - 1].type = "Audio Bait"
    /\ out[Len(out) - 2].type = "Event"
    /\ out[Len(out)].time < out[Len(out) - 1].time

\* C24: reportVisits leaves in the audioBaitEvents of every visit the events
\* that were there before the call, in whatever order: it removes none.
C24_AudioBaitEventsKept ==
    [][(rpc = "named" /\ rpc' = "reported") =>
          /\ Len(rvisits') = Len(rvisits)
          /\ \A k \in 1..Len(rvisits) :
                /\ Len(rvisits'[k].audioBaitEvents) = Len(rvisits[k].audioBaitEvents)
                /\ BaitIds(rvisits'[k]) = BaitIds(rvisits[k])]_vars

\* C25: queryVisits returns no more visits than requestVisits: the limit of
\* the request when it has one, 5000 otherwise.
C25_NoMoreThanRequested ==
    (pc = "done" /\ ConsistentSource) =>
        /\ Len(result.visits) <= RequestVisits(reqLimit)
        /\ result.numVisits <= RequestVisits(reqLimit)

SameRatio(a, b) == a.num * b.den = b.num * a.den

VisitsOfAnimal(d, a) == SelectSeq(rvisits, LAMBDA v : v.deviceId = d /\ v.what = a)

\* C26: the average of the row of an animal is the number of events of the
\* visits of that animal at the device divided by the number of those visits:
\* events over visits, as in the row of the device.
C26_AnimalAverageEventsPerVisit ==
    rpc = "summarised" =>
        \A j \in 1..Len(out) :
            out[j].type = "Animal" =>
                LET its == VisitsOfAnimal(out[j].deviceId, out[j].animal)
                IN  SameRatio(out[j].average, Ratio(SumEvents(its, 1), Len(its)))

====
